---- MODULE Spec2Model ----
(***************************************************************************)
(* Verification model of the simcado_to_scopesim photometry pipeline.      *)
(*                                                                         *)
(*   Spec          hypertuning.py: the hyperparameter search driver        *)
(*   SpecBatch     astrometry_benchmark.py: the batch driver               *)
(*   SpecPhot      photometry.py: candidate finder and PSF builders        *)
(*   SpecLock      scopesim_helper.py: setup_optical_train and its lock    *)
(*   SpecDownload  scopesim_helper.py: download()                          *)
(*                                                                         *)
(* Every specification moves only its own variables; the variables of the  *)
(* other components stay at their initial values.                          *)
(***************************************************************************)
EXTENDS Integers, Sequences, FiniteSets, TLC

VARIABLES
    \* ---- hypertuning.py ----
    pc,          \* position of the main process of the search driver
    run,         \* how many times the driver has been started
    file,        \* optimize_result_RF_expanded.pkl on disk
    optimizer,   \* number of observations the optimizer object holds
    fresh,       \* TRUE iff this run constructed a new Optimizer
    loaded,      \* observations the optimizer held when this run's loop began
    i,           \* loop variable of "for i in range(500)" = jobs submitted
    jobs,        \* the jobs list (job numbers, in list order)
    idx,         \* position of the list iterator of "for job in jobs"
    cur,         \* the loop variable "job"
    ready,       \* jobs whose AsyncResult is ready
    outcome,     \* what objective() produced in the worker, per job
    told,        \* the calls optimizer.tell(args, loss) of this run, in order
    passReady,   \* jobs of the list that were ready when the polling pass began
    poolAlive,   \* the mp.Pool is inside its with block
    interrupted, \* a KeyboardInterrupt was caught in this run
    abandoned,   \* the jobs list at the moment of the interrupt
    toldAtInt,   \* Len(told) at the moment of the interrupt
    dumps,       \* times this run has written the state file
    \* ---- astrometry_benchmark.py ----
    bpc,         \* position of the main process of the batch driver
    unit,        \* state of every unit of work of the three job sets
    bpool,       \* the mp.Pool(10) is inside its with block
    results,     \* the futures whose get() has returned into "results"
    written,     \* all_photometry_results.pickle has been written
    failedAt,    \* the future whose get() raised (0: none)
    \* ---- scopesim_helper.py: setup_optical_train ----
    lpc,         \* position of every worker process inside setup_optical_train
    lock,        \* scopesim_lock: the process holding it (0: free)
    ncalls,      \* calls of setup_optical_train each process has begun
    \* ---- scopesim_helper.py: download ----
    dpc,         \* position inside download()
    micado,      \* ./MICADO exists
    ask,         \* the argument of the current call
    stdin,       \* what the user will type at the prompts to come
    choice,      \* the answer read by input()
    prompted,    \* prompts shown so far
    downloaded,  \* calls of scopesim.download_package so far
    exitStatus,  \* status passed to exit() (0 while the process runs)
    dcalls,      \* calls of download() begun
    \* ---- photometry.py ----
    ppc,         \* position inside make_epsf_fit / make_epsf_combine
    builder,     \* which PSF builder runs: "fit" or "combine"
    image,       \* shape of the image: [h |-> rows, w |-> columns]
    detected,    \* rows the star finder detects in the image
    peaks_tbl,   \* the variable peaks_tbl of make_stars_guess
    stars,       \* the cutouts returned by extract_stars
    epsf,        \* outcome of the builder
    \* ---- photometry.py: cut_close_stars ----
    cpc,         \* position inside cut_close_stars
    input_table, \* the argument peak_table: rows of id, x, y
    cutoff_dist, \* the argument cutoff_dist
    nearest,     \* the column peak_table['nearest'] (<<>> before it exists)
    lookup_tree, \* the points held by the cKDTree
    crow,        \* index of the row the for loop has reached
    returned     \* the table cut_close_stars returns

searchVars == <<pc, run, file, optimizer, fresh, loaded, i, jobs, idx, cur,
                ready, outcome, told, passReady, poolAlive, interrupted, abandoned,
                toldAtInt, dumps>>
batchVars == <<bpc, unit, bpool, results, written, failedAt>>
lockVars == <<lpc, lock, ncalls>>
dlVars == <<dpc, micado, ask, stdin, choice, prompted, downloaded, exitStatus, dcalls>>
pipeVars == <<ppc, builder, image, detected, peaks_tbl, stars, epsf>>
closeVars == <<cpc, input_table, cutoff_dist, nearest, lookup_tree, crow, returned>>
photVars == <<pipeVars, closeVars>>

vars == <<searchVars, batchVars, lockVars, dlVars, photVars>>

(***************************************************************************)
(* Bounds and program constants                                            *)
(***************************************************************************)
\* pool size; 10 in hypertuning.py:69, scaled down
n_procs == 2
\* evaluations per run; range(500) in hypertuning.py:73, scaled down
MaxEvaluations == 3
\* how many times the driver is started
MaxRuns == 2
\* the penalty objective() returns on failure
SentinelLoss == 100

\* the losses a successful evaluation can compute
Losses == {3}
\* the steps inside objective()'s try block; "none" = no step fails
FailPoints == {"none", "config", "read_image", "run_photometry", "match", "loss"}

JobIds == 1..MaxEvaluations

Range(s) == {s[k] : k \in 1..Len(s)}

(***************************************************************************)
(* hypertuning.py: objective                                               *)
(***************************************************************************)
\* a variant of objective without the try/except: the error reaches the caller
objective_propagates(fail, loss) ==
    [raised |-> fail # "none", failed |-> fail # "none", value |-> loss]

\* objective(): the try block runs the steps in order; the bare except turns a
\* failure of any of them into the sentinel
objective(fail, loss) ==
    [raised |-> FALSE,
     failed |-> fail # "none",
     value  |-> IF fail # "none" THEN SentinelLoss ELSE loss]

NoOutcome == [raised |-> FALSE, failed |-> FALSE, value |-> 0]

\* a pool worker finishes job j: its AsyncResult becomes ready
WorkerFinish(j) ==
    /\ poolAlive
    /\ j \in 1..i
    /\ j \notin ready
    /\ \E fail \in FailPoints, loss \in Losses :
          outcome' = [outcome EXCEPT ![j] = objective(fail, loss)]
    /\ ready' = ready \cup {j}
    /\ UNCHANGED <<pc, run, dumps, file, optimizer, fresh, loaded, i, jobs, idx, cur,
                   told, passReady, poolAlive, interrupted, abandoned, toldAtInt>>
    /\ UNCHANGED <<batchVars, lockVars, dlVars, photVars>>

(***************************************************************************)
(* hypertuning.py: module level and the search loop                        *)
(***************************************************************************)
NoFile == [exists |-> FALSE, n |-> 0]

\* a variant that constructs a new Optimizer whether or not the file exists
LoadOrCreate_always_fresh == [fresh |-> TRUE, n |-> 0]

\* lines 47-58: dill.load when the state file exists, else Optimizer(...)
LoadOrCreate ==
    IF file.exists THEN [fresh |-> FALSE, n |-> file.n]
    ELSE [fresh |-> TRUE, n |-> 0]

\* lines 47-58 and 69-71: module level code, then the pool and the empty jobs list
Start ==
    /\ pc = "start"
    /\ optimizer' = LoadOrCreate.n
    /\ loaded' = LoadOrCreate.n
    /\ fresh' = LoadOrCreate.fresh
    /\ poolAlive' = TRUE
    /\ jobs' = <<>>
    /\ pc' = "ask"
    /\ UNCHANGED <<run, dumps, file, i, idx, cur, ready, outcome, told, passReady,
                   interrupted, abandoned, toldAtInt>>
    /\ UNCHANGED <<batchVars, lockVars, dlVars, photVars>>

\* lines 73-79: the loop head, optimizer.ask() and update_next()
Ask ==
    /\ pc = "ask"
    /\ pc' = IF i < MaxEvaluations THEN "submit" ELSE "drain"
    /\ idx' = 0
    /\ UNCHANGED <<run, dumps, file, optimizer, fresh, loaded, i, jobs, cur, ready,
                   outcome, told, passReady, poolAlive, interrupted, abandoned, toldAtInt>>
    /\ UNCHANGED <<batchVars, lockVars, dlVars, photVars>>

\* line 80: jobs.append(Job(p.apply_async(objective, args), args))
Submit ==
    /\ pc = "submit"
    /\ i' = i + 1
    /\ jobs' = Append(jobs, i + 1)
    /\ idx' = 0
    /\ passReady' = Range(jobs') \cap ready
    /\ pc' = "poll"
    /\ UNCHANGED <<run, dumps, file, optimizer, fresh, loaded, cur, ready, outcome,
                   told, poolAlive, interrupted, abandoned, toldAtInt>>
    /\ UNCHANGED <<batchVars, lockVars, dlVars, photVars>>

\* job.result.get() of a ready job, then optimizer.tell: the next position of the
\* main process, an error raised in the worker being re-raised by get()
TellOrRaise(j, next) == IF outcome[j].raised THEN "crashed" ELSE next

\* lines 81-83: the list iterator yields jobs[idx] and advances; a ready job is told
PollStep ==
    /\ pc = "poll"
    /\ idx < Len(jobs)
    /\ cur' = jobs[idx + 1]
    /\ idx' = idx + 1
    /\ IF jobs[idx + 1] \in ready
       THEN /\ pc' = TellOrRaise(jobs[idx + 1], "remove")
            /\ IF outcome[jobs[idx + 1]].raised
               THEN UNCHANGED <<told, optimizer>>
               ELSE /\ told' = Append(told, [job  |-> jobs[idx + 1],
                                             loss |-> outcome[jobs[idx + 1]].value])
                    /\ optimizer' = optimizer + 1
       ELSE /\ pc' = "poll"
            /\ UNCHANGED <<told, optimizer>>
    /\ UNCHANGED <<run, dumps, file, fresh, loaded, i, jobs, ready, outcome,
                   passReady, poolAlive, interrupted, abandoned, toldAtInt>>
    /\ UNCHANGED <<batchVars, lockVars, dlVars, photVars>>

\* a variant of the removal that leaves the list as it is
remove_nothing(s, x) == s

\* list.remove(x): the list without the first element equal to x
RECURSIVE remove(_, _)
remove(s, x) ==
    IF s = <<>> THEN <<>>
    ELSE IF Head(s) = x THEN Tail(s)
    ELSE <<Head(s)>> \o remove(Tail(s), x)

\* line 84: jobs.remove(job), while the iterator keeps its position
Remove ==
    /\ pc = "remove"
    /\ jobs' = remove(jobs, cur)
    /\ pc' = "poll"
    /\ UNCHANGED <<run, dumps, file, optimizer, fresh, loaded, i, idx, cur, ready,
                   outcome, told, passReady, poolAlive, interrupted, abandoned, toldAtInt>>
    /\ UNCHANGED <<batchVars, lockVars, dlVars, photVars>>

\* line 81: the iterator is exhausted
PollEnd ==
    /\ pc = "poll"
    /\ idx >= Len(jobs)
    /\ pc' = "throttle"
    /\ UNCHANGED <<run, dumps, file, optimizer, fresh, loaded, i, jobs, idx, cur,
                   ready, outcome, told, passReady, poolAlive, interrupted, abandoned,
                   toldAtInt>>
    /\ UNCHANGED <<batchVars, lockVars, dlVars, photVars>>

\* lines 64-65 and 85: sum(map(not_ready, jobs))
not_ready_count(js) == Cardinality({k \in 1..Len(js) : js[k] \notin ready})

\* a variant of the loop condition that counts every job of the list
Throttled_counts_all == Len(jobs) >= n_procs

\* a variant of the loop condition that lets one more job in
Throttled_off_by_one == not_ready_count(jobs) > n_procs

\* line 85: the condition of the while loop
Throttled == not_ready_count(jobs) >= n_procs

\* line 85: the condition is evaluated
Throttle ==
    /\ pc = "throttle"
    /\ pc' = IF Throttled THEN "sleep" ELSE "ask"
    /\ UNCHANGED <<run, dumps, file, optimizer, fresh, loaded, i, jobs, idx, cur,
                   ready, outcome, told, passReady, poolAlive, interrupted, abandoned,
                   toldAtInt>>
    /\ UNCHANGED <<batchVars, lockVars, dlVars, photVars>>

\* line 86: time.sleep(0.5)
Sleep ==
    /\ pc = "sleep"
    /\ pc' = "throttle"
    /\ UNCHANGED <<run, dumps, file, optimizer, fresh, loaded, i, jobs, idx, cur,
                   ready, outcome, told, passReady, poolAlive, interrupted, abandoned,
                   toldAtInt>>
    /\ UNCHANGED <<batchVars, lockVars, dlVars, photVars>>

\* lines 87-88: the final drain; get() blocks until the job is ready
DrainStep ==
    /\ pc = "drain"
    /\ idx < Len(jobs)
    /\ jobs[idx + 1] \in ready
    /\ cur' = jobs[idx + 1]
    /\ idx' = idx + 1
    /\ pc' = TellOrRaise(jobs[idx + 1], "drain")
    /\ IF outcome[jobs[idx + 1]].raised
       THEN UNCHANGED <<told, optimizer>>
       ELSE /\ told' = Append(told, [job  |-> jobs[idx + 1],
                                     loss |-> outcome[jobs[idx + 1]].value])
            /\ optimizer' = optimizer + 1
    /\ UNCHANGED <<run, dumps, file, fresh, loaded, i, jobs, ready, outcome,
                   passReady, poolAlive, interrupted, abandoned, toldAtInt>>
    /\ UNCHANGED <<batchVars, lockVars, dlVars, photVars>>

\* line 87: the iterator of the drain is exhausted, the try block ends
DrainEnd ==
    /\ pc = "drain"
    /\ idx >= Len(jobs)
    /\ pc' = "exit_pool"
    /\ UNCHANGED <<run, dumps, file, optimizer, fresh, loaded, i, jobs, idx, cur,
                   ready, outcome, told, passReady, poolAlive, interrupted, abandoned,
                   toldAtInt>>
    /\ UNCHANGED <<batchVars, lockVars, dlVars, photVars>>

\* the statements of the try block
InTry == {"ask", "submit", "poll", "remove", "throttle", "sleep", "drain"}

\* a variant of the handler that reports the jobs of the list before leaving
AfterInterrupt_drains == "drain"

\* lines 89-90: except KeyboardInterrupt: pass
AfterInterrupt == "exit_pool"

\* a KeyboardInterrupt reaches the main process inside the try block
KeyboardInterrupt ==
    /\ pc \in InTry
    /\ interrupted' = TRUE
    /\ abandoned' = Range(jobs)
    /\ toldAtInt' = Len(told)
    /\ idx' = 0
    /\ pc' = AfterInterrupt
    /\ UNCHANGED <<run, dumps, file, optimizer, fresh, loaded, i, jobs, cur, ready,
                   outcome, told, passReady, poolAlive>>
    /\ UNCHANGED <<batchVars, lockVars, dlVars, photVars>>

\* line 70: the with block ends, Pool.__exit__ terminates the workers
PoolExit ==
    /\ pc = "exit_pool"
    /\ poolAlive' = FALSE
    /\ pc' = "dump"
    /\ UNCHANGED <<run, dumps, file, optimizer, fresh, loaded, i, jobs, idx, cur,
                   ready, outcome, told, passReady, interrupted, abandoned, toldAtInt>>
    /\ UNCHANGED <<batchVars, lockVars, dlVars, photVars>>

\* lines 102-105: get_result(), then the optimizer is written to the state file
Dump ==
    /\ pc = "dump"
    /\ file' = [exists |-> TRUE, n |-> optimizer]
    /\ dumps' = dumps + 1
    /\ pc' = "done"
    /\ UNCHANGED <<run, optimizer, fresh, loaded, i, jobs, idx, cur, ready,
                   outcome, told, passReady, poolAlive, interrupted, abandoned, toldAtInt>>
    /\ UNCHANGED <<batchVars, lockVars, dlVars, photVars>>

\* the driver is started again; only the state file survives
NextRun ==
    /\ pc = "done"
    /\ run < MaxRuns
    /\ run' = run + 1
    /\ pc' = "start"
    /\ optimizer' = 0
    /\ fresh' = FALSE
    /\ loaded' = 0
    /\ i' = 0
    /\ jobs' = <<>>
    /\ idx' = 0
    /\ cur' = 0
    /\ ready' = {}
    /\ outcome' = [j \in JobIds |-> NoOutcome]
    /\ told' = <<>>
    /\ passReady' = {}
    /\ poolAlive' = FALSE
    /\ interrupted' = FALSE
    /\ abandoned' = {}
    /\ toldAtInt' = 0
    /\ dumps' = 0
    /\ UNCHANGED file
    /\ UNCHANGED <<batchVars, lockVars, dlVars, photVars>>

InitSearch ==
    /\ pc = "start"
    /\ run = 1
    /\ file = NoFile
    /\ optimizer = 0
    /\ fresh = FALSE
    /\ loaded = 0
    /\ i = 0
    /\ jobs = <<>>
    /\ idx = 0
    /\ cur = 0
    /\ ready = {}
    /\ outcome = [j \in JobIds |-> NoOutcome]
    /\ told = <<>>
    /\ passReady = {}
    /\ poolAlive = FALSE
    /\ interrupted = FALSE
    /\ abandoned = {}
    /\ toldAtInt = 0
    /\ dumps = 0

\* the search driver and its pool workers
Next ==
    \/ Start
    \/ Ask
    \/ Submit
    \/ PollStep
    \/ Remove
    \/ PollEnd
    \/ Throttle
    \/ Sleep
    \/ DrainStep
    \/ DrainEnd
    \/ KeyboardInterrupt
    \/ PoolExit
    \/ Dump
    \/ NextRun
    \/ \E j \in JobIds : WorkerFinish(j)

\* one step of the main process, no KeyboardInterrupt arriving
MainStep ==
    \/ Start
    \/ Ask
    \/ Submit
    \/ PollStep
    \/ Remove
    \/ PollEnd
    \/ Throttle
    \/ Sleep
    \/ DrainStep
    \/ DrainEnd
    \/ PoolExit
    \/ Dump

\* the search driver and its pool workers when no KeyboardInterrupt arrives
NextUninterrupted ==
    \/ MainStep
    \/ NextRun
    \/ \E j \in JobIds : WorkerFinish(j)

\* the main process keeps running, and every job a pool worker holds is
\* eventually finished
FairSearch ==
    /\ WF_vars(MainStep)
    /\ \A j \in JobIds : WF_vars(WorkerFinish(j))

(***************************************************************************)
(* Properties of the search driver                                         *)
(***************************************************************************)
\* the jobs this run has passed to optimizer.tell
ToldJobs == {told[k].job : k \in 1..Len(told)}

\* submitted jobs whose result is not ready
InFlight == {j \in 1..i : j \notin ready}

\* C1: the number of submitted jobs whose result is not ready never exceeds
\* n_procs, and apply_async is only called in a state where fewer than n_procs
\* jobs of the jobs list are not ready.
C1_InFlightBounded ==
    /\ Cardinality(InFlight) <= n_procs
    /\ InFlight \subseteq Range(jobs)
    /\ pc = "submit" => not_ready_count(jobs) < n_procs

\* the throttling loop is sleeping with a full pool
C1_Witness == pc = "sleep" /\ Cardinality(InFlight) = n_procs

\* C2: after a polling pass, every job that was ready when the pass started has
\* been passed to optimizer.tell (none was skipped and left in the jobs list).
C2_PassReportsEveryReadyJob ==
    pc = "throttle" => \A j \in passReady : j \in ToldJobs /\ j \notin Range(jobs)

\* C3: objective never propagates an error: a failed step yields the sentinel
\* 100, otherwise the computed loss; job.result.get() therefore always yields a
\* value, and that value is what optimizer.tell receives.
C3_ObjectiveNeverRaises ==
    /\ pc # "crashed"
    /\ \A j \in ready :
          /\ ~outcome[j].raised
          /\ outcome[j].failed => outcome[j].value = SentinelLoss
          /\ ~outcome[j].failed => outcome[j].value \in Losses
    /\ \A k \in 1..Len(told) :
          told[k].job \in ready /\ told[k].loss = outcome[told[k].job].value

\* a failed evaluation and a successful one have both been told
C3_Witness ==
    /\ \E k \in 1..Len(told) : outcome[told[k].job].failed /\ told[k].loss = SentinelLoss
    /\ \E k \in 1..Len(told) : ~outcome[told[k].job].failed

C12_EveryJobToldOnce ==
    /\ \A k \in 1..Len(told) :
          /\ told[k].job \in 1..i
          /\ told[k].job \in ready
          /\ told[k].loss = outcome[told[k].job].value
    /\ \A k, l \in 1..Len(told) : k # l => told[k].job # told[l].job
    /\ (pc \in {"exit_pool", "dump", "done"} /\ ~interrupted) =>
          /\ i = MaxEvaluations
          /\ ToldJobs = 1..MaxEvaluations
          /\ Len(told) = MaxEvaluations

\* a run finished without interrupt in which the polling passes told some jobs
\* and the final drain told the others
C12_Witness ==
    /\ pc = "done" /\ ~interrupted
    /\ Len(told) = MaxEvaluations
    /\ Len(jobs) > 0 /\ Len(jobs) < MaxEvaluations

\* C14: with fair workers and no KeyboardInterrupt the search driver
\* terminates: the throttling loop is always eventually left, the drain
\* completes, every run reaches its end having asked and submitted exactly
\* MaxEvaluations parameter vectors, and the optimizer is written to the state
\* file exactly once per run.
C14_DriverTerminates ==
    /\ (pc = "start") ~> (pc = "done")
    /\ (pc = "sleep") ~> (pc = "ask")
    /\ (pc = "drain") ~> (pc = "exit_pool")
    /\ [](dumps <= 1 /\ i <= MaxEvaluations /\ pc # "crashed")
    /\ [](pc \in {"drain", "exit_pool", "dump", "done"} =>
             i = MaxEvaluations /\ Cardinality(Range(jobs) \cup ToldJobs) = MaxEvaluations)
    /\ [](pc = "done" =>
             /\ dumps = 1
             /\ file = [exists |-> TRUE, n |-> optimizer]
             /\ optimizer = loaded + MaxEvaluations)
    /\ [](pc # "done" => dumps = 0)

\* the last run has ended after its drain reported jobs the polling passes
\* had left in the list
C14_Witness ==
    /\ pc = "done" /\ run = MaxRuns /\ ~interrupted
    /\ dumps = 1
    /\ i = MaxEvaluations
    /\ Len(jobs) > 0

(***************************************************************************)
(* astrometry_benchmark.py: the batch driver                               *)
(***************************************************************************)
\* units of work per job set (the products of lines 110-112)
MaxUnits == 2

\* future1 (normal), future2 (cheating), future3 (lowpass)
Futures == 1..3
Units == 1..MaxUnits

IdleBatch ==
    /\ bpc = "idle"
    /\ unit = [f \in Futures |-> [u \in Units |-> "unsubmitted"]]
    /\ bpool = FALSE
    /\ results = {}
    /\ written = FALSE
    /\ failedAt = 0

\* line 114: with mp.Pool(10) as pool
InitBatch ==
    /\ bpc = "submit1"
    /\ unit = [f \in Futures |-> [u \in Units |-> "unsubmitted"]]
    /\ bpool = TRUE
    /\ results = {}
    /\ written = FALSE
    /\ failedAt = 0

\* lines 116-118: pool.starmap_async puts every unit of job set f into the pool
StarmapAsync(f, next) ==
    /\ bpc = "submit" \o ToString(f)
    /\ unit' = [unit EXCEPT ![f] = [u \in Units |-> "pending"]]
    /\ bpc' = next
    /\ UNCHANGED <<bpool, results, written, failedAt>>
    /\ UNCHANGED <<searchVars, lockVars, dlVars, photVars>>

Submit1 == StarmapAsync(1, "submit2")
Submit2 == StarmapAsync(2, "submit3")
Submit3 == StarmapAsync(3, "get1")

\* lines 48-66: a worker runs photometry_with_plots or
\* cheating_astrometry_with_plots on one unit; nothing in them catches an error
UnitRuns(f, u) ==
    /\ bpool
    /\ unit[f][u] = "pending"
    /\ \E how \in {"ok", "raised"} : unit' = [unit EXCEPT ![f][u] = how]
    /\ UNCHANGED <<bpc, bpool, results, written, failedAt>>
    /\ UNCHANGED <<searchVars, lockVars, dlVars, photVars>>

Finished(f) == \A u \in Units : unit[f][u] \in {"ok", "raised"}

\* a variant of get() that drops the units that raised and returns the rest
GetRaises_swallowed(f) == FALSE

\* line 119: future.get() re-raises the exception of a unit that raised
GetRaises(f) == \E u \in Units : unit[f][u] = "raised"

\* line 119: future.get() returns or raises once the map result is ready: when
\* every unit has finished, or as soon as one has raised (which of the two is up
\* to the pool implementation)
GetReady(f) == Finished(f) \/ \E u \in Units : unit[f][u] = "raised"

\* line 119: the three get() calls, left to right; an exception leaves the with
\* block, which terminates the pool, and ends the script
Get(f, next) ==
    /\ bpc = "get" \o ToString(f)
    /\ GetReady(f)
    /\ IF GetRaises(f)
       THEN /\ bpc' = "failed"
            /\ failedAt' = f
            /\ bpool' = FALSE
            /\ UNCHANGED results
       ELSE /\ bpc' = next
            /\ results' = results \cup {f}
            /\ UNCHANGED <<failedAt, bpool>>
    /\ UNCHANGED <<unit, written>>
    /\ UNCHANGED <<searchVars, lockVars, dlVars, photVars>>

Get1 == Get(1, "get2")
Get2 == Get(2, "get3")
Get3 == Get(3, "write")

\* lines 119-123: the with block ends, then the results are pickled
WriteResults ==
    /\ bpc = "write"
    /\ bpool' = FALSE
    /\ written' = TRUE
    /\ bpc' = "done"
    /\ UNCHANGED <<unit, results, failedAt>>
    /\ UNCHANGED <<searchVars, lockVars, dlVars, photVars>>

\* the batch driver and its pool workers
NextBatch ==
    \/ Submit1
    \/ Submit2
    \/ Submit3
    \/ Get1
    \/ Get2
    \/ Get3
    \/ WriteResults
    \/ \E f \in Futures, u \in Units : UnitRuns(f, u)

(***************************************************************************)
(* Properties of the batch driver                                          *)
(***************************************************************************)
AllUnits == Futures \X Units

\* C6: all three job sets are submitted before any result is awaited; the
\* results file is written only when every unit of all three sets completed
\* without raising; if a unit raised, the exception surfaces at the get() of its
\* own future and the file is never written, whatever the other units did.
C6_WriteOnlyAfterAllSucceeded ==
    /\ bpc \in {"get1", "get2", "get3", "write", "done", "failed"} =>
          \A fu \in AllUnits : unit[fu[1]][fu[2]] # "unsubmitted"
    /\ written => \A fu \in AllUnits : unit[fu[1]][fu[2]] = "ok"
    /\ (\E fu \in AllUnits : unit[fu[1]][fu[2]] = "raised") => ~written
    /\ bpc = "failed" =>
          /\ failedAt \in Futures
          /\ \E u \in Units : unit[failedAt][u] = "raised"
          /\ \A f \in results : f < failedAt
          /\ ~written
    /\ bpc \in {"write", "done"} => results = Futures

\* the get() of the last future raised although every other unit succeeded
C6_Witness ==
    /\ bpc = "failed" /\ failedAt = 3 /\ ~written
    /\ results = {1, 2}
    /\ Cardinality({fu \in AllUnits : unit[fu[1]][fu[2]] = "ok"}) =
          Cardinality(AllUnits) - 1

(***************************************************************************)
(* scopesim_helper.py: setup_optical_train and scopesim_lock               *)
(***************************************************************************)
\* worker processes that call setup_optical_train
MaxProcs == 2
\* calls of setup_optical_train per worker process
MaxCalls == 2

Procs == 1..MaxProcs

IdleLock ==
    /\ lpc = [p \in Procs |-> "idle"]
    /\ lock = 0
    /\ ncalls = [p \in Procs |-> 0]

\* line 25: scopesim_lock = multiprocessing.Lock(), created unlocked
InitLock == IdleLock

\* lines 89-95: a worker enters setup_optical_train and builds the PSF effect
Call(p) ==
    /\ lpc[p] = "idle"
    /\ ncalls[p] < MaxCalls
    /\ ncalls' = [ncalls EXCEPT ![p] = @ + 1]
    /\ lpc' = [lpc EXCEPT ![p] = "acquire"]
    /\ UNCHANGED lock
    /\ UNCHANGED <<searchVars, batchVars, dlVars, photVars>>

\* line 102: with scopesim_lock: __enter__ blocks until the lock is free
Acquire(p) ==
    /\ lpc[p] = "acquire"
    /\ lock = 0
    /\ lock' = p
    /\ lpc' = [lpc EXCEPT ![p] = "construct"]
    /\ UNCHANGED ncalls
    /\ UNCHANGED <<searchVars, batchVars, dlVars, photVars>>

\* line 103: scopesim.OpticalTrain('MICADO') finishes or raises
Construct(p) ==
    /\ lpc[p] = "construct"
    /\ \E how \in {"exit_ok", "exit_raise"} : lpc' = [lpc EXCEPT ![p] = how]
    /\ UNCHANGED <<lock, ncalls>>
    /\ UNCHANGED <<searchVars, batchVars, dlVars, photVars>>

\* a variant with acquire()/release() calls around the construction and no
\* try/finally: an exception skips the release
LockAfterExit_leaks(p, raised) == IF raised THEN p ELSE 0

\* lines 102-103: the with statement releases the lock on both ways out
LockAfterExit(p, raised) == 0

\* lines 102-103: __exit__ of the with statement; an exception then propagates
\* to the caller, otherwise lines 105-126 configure and return the train
Release(p) ==
    /\ lpc[p] \in {"exit_ok", "exit_raise"}
    /\ lock' = LockAfterExit(p, lpc[p] = "exit_raise")
    /\ lpc' = [lpc EXCEPT ![p] = IF lpc[p] = "exit_raise" THEN "idle" ELSE "configure"]
    /\ UNCHANGED ncalls
    /\ UNCHANGED <<searchVars, batchVars, dlVars, photVars>>

\* lines 105-126: the PSF effect is added, effects are disabled, micado returned
Configure(p) ==
    /\ lpc[p] = "configure"
    /\ lpc' = [lpc EXCEPT ![p] = "idle"]
    /\ UNCHANGED <<lock, ncalls>>
    /\ UNCHANGED <<searchVars, batchVars, dlVars, photVars>>

\* the worker processes, interleaved
NextLock ==
    \E p \in Procs :
        \/ Call(p)
        \/ Acquire(p)
        \/ Construct(p)
        \/ Release(p)
        \/ Configure(p)

\* every process that can take a step inside setup_optical_train eventually
\* takes it: the construction ends, and a blocked acquire returns once the lock
\* stays free
FairLock ==
    \A p \in Procs :
        /\ WF_vars(Acquire(p))
        /\ WF_vars(Construct(p))
        /\ WF_vars(Release(p))

(***************************************************************************)
(* Properties of setup_optical_train                                       *)
(***************************************************************************)
InWith(p) == lpc[p] \in {"construct", "exit_ok", "exit_raise"}

\* C8: at most one process at a time is inside the construction of
\* OpticalTrain('MICADO'); the construction runs only while its process holds
\* scopesim_lock; the lock is free again once the construction has finished or
\* raised; and a process waiting for the lock eventually acquires it.
C8_ConstructionIsMutexed ==
    /\ [](Cardinality({p \in Procs : lpc[p] = "construct"}) <= 1)
    /\ [](\A p \in Procs : InWith(p) => lock = p)
    /\ [](lock # 0 => InWith(lock))
    /\ \A p \in Procs : (lpc[p] = "acquire") ~> (lpc[p] = "construct")

\* one process constructs, in its second call, while another waits for the lock
C8_Witness ==
    \E p, q \in Procs :
        /\ p # q
        /\ lpc[p] = "construct" /\ lock = p
        /\ lpc[q] = "acquire"
        /\ ncalls[p] > 1

(***************************************************************************)
(* scopesim_helper.py: download                                            *)
(***************************************************************************)
\* calls of download() in one process
MaxDownloadCalls == 2
\* the status of exit(-1)
ExitStatus == -1

\* what the user can type at the prompt
Answers == {"y", "Y", "n", "N", "", "yes"}

RECURSIVE SeqsOfLen(_, _)
SeqsOfLen(S, n) ==
    IF n = 0 THEN {<<>>}
    ELSE {<<x>> \o t : x \in S, t \in SeqsOfLen(S, n - 1)}

IdleDownload ==
    /\ dpc = "idle"
    /\ micado = FALSE
    /\ ask = TRUE
    /\ stdin = <<>>
    /\ choice = "unset"
    /\ prompted = 0
    /\ downloaded = 0
    /\ exitStatus = 0
    /\ dcalls = 0

InitDownload ==
    /\ dpc = "idle"
    /\ micado \in BOOLEAN
    /\ ask = TRUE
    /\ stdin \in SeqsOfLen(Answers, MaxDownloadCalls)
    /\ choice = "unset"
    /\ prompted = 0
    /\ downloaded = 0
    /\ exitStatus = 0
    /\ dcalls = 0

\* a variant that accepts every answer but a refusal
Accepted_unless_no(c) == c \notin {"n", "N"}

\* line 140: choice == 'y' or choice == 'Y'
Accepted(c) == c = "y" \/ c = "Y"

\* lines 129-136: download(ask) is called; os.path.exists('./MICADO') and ask
\* decide where it goes
DownloadCall ==
    /\ dpc = "idle"
    /\ dcalls < MaxDownloadCalls
    /\ dcalls' = dcalls + 1
    /\ \E a \in BOOLEAN :
          /\ ask' = a
          /\ dpc' = IF micado THEN "idle"
                    ELSE IF a THEN "prompt" ELSE "download"
    /\ choice' = "unset"
    /\ UNCHANGED <<micado, stdin, prompted, downloaded, exitStatus>>
    /\ UNCHANGED <<searchVars, batchVars, lockVars, photVars>>

\* lines 137-141: the prompt is printed, input() reads the answer, and any
\* answer but y or Y ends the process with exit(-1)
Prompt ==
    /\ dpc = "prompt"
    /\ prompted' = prompted + 1
    /\ choice' = Head(stdin)
    /\ stdin' = Tail(stdin)
    /\ IF Accepted(Head(stdin))
       THEN dpc' = "download" /\ UNCHANGED exitStatus
       ELSE dpc' = "exited" /\ exitStatus' = ExitStatus
    /\ UNCHANGED <<micado, ask, downloaded, dcalls>>
    /\ UNCHANGED <<searchVars, batchVars, lockVars, photVars>>

\* lines 142-144: scopesim.download_package; when it succeeds the instrument
\* package instruments/MICADO is unpacked into ./MICADO, when it raises the
\* exception leaves download()
DownloadPackage ==
    /\ dpc = "download"
    /\ downloaded' = downloaded + 1
    /\ \E ok \in BOOLEAN : micado' = ok
    /\ dpc' = "idle"
    /\ UNCHANGED <<ask, stdin, choice, prompted, exitStatus, dcalls>>
    /\ UNCHANGED <<searchVars, batchVars, lockVars, photVars>>

NextDownload ==
    \/ DownloadCall
    \/ Prompt
    \/ DownloadPackage

(***************************************************************************)
(* Properties of download                                                  *)
(***************************************************************************)
\* C10: download() (ask left at its default, True) downloads the packages only
\* when ./MICADO does not exist and the user answered y or Y to the prompt; when
\* ./MICADO exists the call prompts and downloads nothing; any other answer
\* ends the process with status -1 and nothing is downloaded.
C10_DownloadGatedByPrompt ==
    [][ /\ (downloaded' # downloaded /\ ask) =>
              ~micado /\ prompted > 0 /\ (choice = "y" \/ choice = "Y")
        /\ (dpc = "idle" /\ micado) =>
              prompted' = prompted /\ downloaded' = downloaded /\ dpc' = "idle"
        /\ (dpc = "prompt" /\ Head(stdin) \notin {"y", "Y"}) =>
              dpc' = "exited" /\ exitStatus' = -1 /\ downloaded' = downloaded
        /\ dpc = "exited" => downloaded' = downloaded
      ]_vars

\* the user agreed at the prompt and the packages were downloaded
C10_Witness ==
    /\ ask /\ choice = "Y" /\ prompted = 1 /\ downloaded = 1 /\ micado

(***************************************************************************)
(* photometry.py: candidate finder and PSF builders                        *)
(***************************************************************************)
\* cutout_size; 50 in photometry.py:65, scaled down with the images
cutout_size == 2
\* rows the star finder can detect in one image
MaxRows == 2

\* image side lengths, and the pixel coordinates a detection can have
Sizes == {4, 6}
Coords == {1, 2, 4, 5}

RECURSIVE SeqsUpTo(_, _)
SeqsUpTo(S, n) ==
    IF n = 0 THEN {<<>>}
    ELSE SeqsUpTo(S, n - 1) \cup SeqsOfLen(S, n)

\* the detections that lie in the image
Detections(img) ==
    {r \in [xcentroid : Coords, ycentroid : Coords] :
        r.xcentroid < img.w /\ r.ycentroid < img.h}

NoTable == [kind |-> "None", rows |-> <<>>]
NoEpsf == [status |-> "unset", cutouts |-> <<>>]

\* cut_close_stars is not running
IdleClose ==
    /\ cpc = "idle"
    /\ input_table = <<>>
    /\ cutoff_dist = 0
    /\ nearest = <<>>
    /\ lookup_tree = <<>>
    /\ crow = 0
    /\ returned = <<>>

IdlePipe ==
    /\ ppc = "idle"
    /\ builder = "fit"
    /\ image = [h |-> 0, w |-> 0]
    /\ detected = <<>>
    /\ peaks_tbl = NoTable
    /\ stars = <<>>
    /\ epsf = NoEpsf

IdlePhot == IdlePipe /\ IdleClose

\* make_epsf_fit(image) or make_epsf_combine(image) is called
InitPhot ==
    /\ ppc = "start"
    /\ builder \in {"fit", "combine"}
    /\ image \in [h : Sizes, w : Sizes]
    /\ detected \in SeqsUpTo(Detections(image), MaxRows)
    /\ peaks_tbl = NoTable
    /\ stars = <<>>
    /\ epsf = NoEpsf
    /\ IdleClose

\* line 131: what DAOStarFinder(threshold, fwhm_guess)(image) can return: the
\* table of detections, and for no detection None or a table without columns
\* (depending on the photutils release)
DAOStarFinder(rows) ==
    IF rows = <<>>
    THEN {[kind |-> "None", rows |-> <<>>], [kind |-> "NoColumns", rows |-> <<>>]}
    ELSE {[kind |-> "Table", rows |-> rows]}

\* lines 126-131: sigma-clipped statistics, threshold, star finder
FindStars ==
    /\ ppc = "start"
    /\ peaks_tbl' \in DAOStarFinder(detected)
    /\ ppc' = "found"
    /\ UNCHANGED <<builder, image, detected, stars, epsf>>
    /\ UNCHANGED <<searchVars, batchVars, lockVars, dlVars, closeVars>>

\* a variant that replaces a missing table by an empty one with columns x, y
RenameFails_guarded(tbl) == FALSE

\* line 132: rename_columns raises on None (no such method) and on a table that
\* lacks the columns xcentroid and ycentroid
RenameFails(tbl) == tbl.kind # "Table"

\* line 132: the columns xcentroid, ycentroid become x, y
rename_columns(rows) ==
    [k \in 1..Len(rows) |-> [x |-> rows[k].xcentroid, y |-> rows[k].ycentroid]]

\* line 132; an exception leaves make_stars_guess and the builder that called it
RenameColumns ==
    /\ ppc = "found"
    /\ IF RenameFails(peaks_tbl)
       THEN /\ ppc' = "error"
            /\ epsf' = [status |-> "error", cutouts |-> <<>>]
            /\ UNCHANGED peaks_tbl
       ELSE /\ ppc' = "renamed"
            /\ peaks_tbl' = [kind |-> "Table", rows |-> rename_columns(peaks_tbl.rows)]
            /\ UNCHANGED epsf
    /\ UNCHANGED <<builder, image, detected, stars>>
    /\ UNCHANGED <<searchVars, batchVars, lockVars, dlVars, closeVars>>

\* lines 78-81: the mask of cut_edges, half = box_size / 2 being a true
\* division (both sides of each comparison are doubled here)
InMask(row, box_size, image_size) ==
    /\ 2 * row.x > box_size
    /\ 2 * row.x < 2 * image_size - box_size
    /\ 2 * row.y > box_size
    /\ 2 * row.y < 2 * image_size - box_size

\* lines 77-82: cut_edges(input_table, box_size, image_size)
cut_edges(peak_table, box_size, image_size) ==
    LET Keep(row) == InMask(row, box_size, image_size)
    IN  SelectSeq(peak_table, Keep)

\* line 134: peaks_tbl = cut_edges(peaks_tbl, cutout_size, image.shape[0])
CutEdges ==
    /\ ppc = "renamed"
    /\ peaks_tbl' = [kind |-> "Table",
                     rows |-> cut_edges(peaks_tbl.rows, cutout_size, image.h)]
    /\ ppc' = "filtered"
    /\ UNCHANGED <<builder, image, detected, stars, epsf>>
    /\ UNCHANGED <<searchVars, batchVars, lockVars, dlVars, closeVars>>

\* a variant that cuts the stars out of the table as detected, before the filter
stars_tbl_unfiltered == rename_columns(detected)

\* line 137: stars_tbl = peaks_tbl, the table cut_edges returned on line 134
stars_tbl == peaks_tbl.rows

\* lines 139-141: extract_stars cuts one cutout per row of stars_tbl
ExtractStars ==
    /\ ppc = "filtered"
    /\ stars' = stars_tbl
    /\ ppc' = "extracted"
    /\ UNCHANGED <<builder, image, detected, peaks_tbl, epsf>>
    /\ UNCHANGED <<searchVars, batchVars, lockVars, dlVars, closeVars>>

\* what the library calls of a builder can end in: with cutouts a PSF model,
\* with none whatever the library does with an empty list
BuildOutcomes(cutouts) ==
    IF Len(cutouts) = 0 THEN {"psf", "error"} ELSE {"psf"}

\* lines 170-180: make_epsf_fit runs EPSFBuilder on the cutouts
BuildFit ==
    /\ ppc = "extracted"
    /\ builder = "fit"
    /\ \E st \in BuildOutcomes(stars) : epsf' = [status |-> st, cutouts |-> stars]
    /\ ppc' = IF epsf'.status = "psf" THEN "built" ELSE "error"
    /\ UNCHANGED <<builder, image, detected, peaks_tbl, stars>>
    /\ UNCHANGED <<searchVars, batchVars, lockVars, dlVars, closeVars>>

\* lines 149-160: make_epsf_combine aligns the cutouts and takes their median
BuildCombine ==
    /\ ppc = "extracted"
    /\ builder = "combine"
    /\ \E st \in BuildOutcomes(stars) : epsf' = [status |-> st, cutouts |-> stars]
    /\ ppc' = IF epsf'.status = "psf" THEN "built" ELSE "error"
    /\ UNCHANGED <<builder, image, detected, peaks_tbl, stars>>
    /\ UNCHANGED <<searchVars, batchVars, lockVars, dlVars, closeVars>>

NextPhot ==
    \/ FindStars
    \/ RenameColumns
    \/ CutEdges
    \/ ExtractStars
    \/ BuildFit
    \/ BuildCombine

(***************************************************************************)
(* Properties of the candidate finder and the PSF builders                 *)
(***************************************************************************)
\* the bounds of the edge filter as stated for it: x against the image width,
\* y against the image height, half_cutout = cutout_size / 2, all strict
InStatedBounds(row) ==
    /\ 2 * row.x > cutout_size
    /\ 2 * row.x < 2 * image.w - cutout_size
    /\ 2 * row.y > cutout_size
    /\ 2 * row.y < 2 * image.h - cutout_size

\* C7: the rows passed on to cutout extraction are exactly the detected rows
\* with half_cutout < x < image_width - half_cutout and
\* half_cutout < y < image_height - half_cutout: none outside these bounds is
\* kept and none inside them is dropped.
C7_EdgeFilterExact ==
    ppc \in {"filtered", "extracted", "built"} =>
        peaks_tbl.rows = SelectSeq(rename_columns(detected), InStatedBounds)

\* C9: when detection yields no candidate, make_epsf_fit and make_epsf_combine
\* both end in an error; neither returns a PSF model built from no cutouts.
C9_NoCandidatesIsAnError ==
    detected = <<>> =>
        /\ ppc \notin {"renamed", "filtered", "extracted", "built"}
        /\ epsf.status # "psf"
        /\ ppc \notin {"start", "found"} => ppc = "error" /\ epsf.status = "error"

\* a builder has ended in an error on an image without detections
C9_Witness ==
    /\ detected = <<>>
    /\ builder = "combine"
    /\ ppc = "error" /\ epsf.status = "error"

\* the detected candidates that the edge filter of line 134 rejects
Rejected ==
    {r \in Range(rename_columns(detected)) : ~InMask(r, cutout_size, image.h)}

\* C11: in every run of either builder the edge filter runs before the PSF is
\* constructed: cutouts are extracted, and the PSF is built, only from the table
\* the filter returned, so no candidate the filter rejects contributes a cutout.
C11_FilterBeforePsf ==
    /\ \A r \in Rejected : r \notin Range(stars) /\ r \notin Range(epsf.cutouts)
    /\ (stars # <<>> \/ epsf.status = "psf") => ppc \in {"extracted", "built", "error"}
    /\ ppc \in {"extracted", "built"} =>
          stars = cut_edges(rename_columns(detected), cutout_size, image.h)
    /\ epsf.status = "psf" => ppc = "built" /\ epsf.cutouts = stars

\* a PSF was built from the accepted candidates of a table that also held a
\* rejected one
C11_Witness ==
    /\ ppc = "built" /\ epsf.status = "psf"
    /\ Rejected # {}
    /\ Len(epsf.cutouts) > 0


(***************************************************************************)
(* photometry.py: cut_close_stars                                          *)
(***************************************************************************)
\* rows of the table cut_close_stars is called with
MaxClose == 3
\* largest pixel coordinate of such a row
MaxCoord == 2
\* largest cutoff distance
MaxCutoff == 2

ClosePoints == [x : 0..MaxCoord, y : 0..1]

\* the tables of n rows, the id column counting from 1 as the star finder does
TablesOfLen(n) ==
    {[k \in 1..n |-> [id |-> k, x |-> pts[k].x, y |-> pts[k].y]] :
        pts \in [1..n -> ClosePoints]}

\* a distance: infinite, or the square root of d2
Inf == [inf |-> TRUE, d2 |-> 0]
Dist(d2) == [inf |-> FALSE, d2 |-> d2]

\* squared euclidean distance of two points
D2(p, q) == (p.x - q.x) * (p.x - q.x) + (p.y - q.y) * (p.y - q.y)

\* cut_close_stars(peak_table, cutoff_dist) is called
InitClose ==
    /\ cpc = "start"
    /\ input_table \in UNION {TablesOfLen(n) : n \in 0..MaxClose}
    /\ cutoff_dist \in 0..MaxCutoff
    /\ nearest = <<>>
    /\ lookup_tree = <<>>
    /\ crow = 0
    /\ returned = <<>>

\* line 86: peak_table['nearest'] = 0.
AddNearest ==
    /\ cpc = "start"
    /\ nearest' = [k \in 1..Len(input_table) |-> Dist(0)]
    /\ cpc' = "column"
    /\ UNCHANGED <<input_table, cutoff_dist, lookup_tree, crow, returned>>
    /\ UNCHANGED <<searchVars, batchVars, lockVars, dlVars, pipeVars>>

\* lines 87-88: the tree is built once, from the x and y of every row
BuildTree ==
    /\ cpc = "column"
    /\ lookup_tree' = [k \in 1..Len(input_table) |->
                          [x |-> input_table[k].x, y |-> input_table[k].y]]
    /\ crow' = 1
    /\ cpc' = "loop"
    /\ UNCHANGED <<input_table, cutoff_dist, nearest, returned>>
    /\ UNCHANGED <<searchVars, batchVars, lockVars, dlVars, pipeVars>>

\* the k-th smallest of the distances ds, taken over the points S still to be
\* ranked; infinite when fewer than k points are left
RECURSIVE KthNearest(_, _, _)
KthNearest(S, ds, k) ==
    IF S = {} THEN Inf
    ELSE LET j == CHOOSE j \in S : \A l \in S : ds[j] <= ds[l]
         IN  IF k = 1 THEN Dist(ds[j]) ELSE KthNearest(S \ {j}, ds, k - 1)

\* lookup_tree.query(pt, k=[k]): the distance from pt to its k-th nearest point
\* of the tree
query(tree, pt, k) ==
    KthNearest(1..Len(tree), [j \in 1..Len(tree) |-> D2(tree[j], pt)], k)

\* lines 89-92: one pass of the loop body; the second nearest point of the tree
\* is asked for, the nearest being the row itself
QueryRow ==
    /\ cpc = "loop"
    /\ crow <= Len(input_table)
    /\ nearest' = [nearest EXCEPT ![crow] =
                      query(lookup_tree,
                            [x |-> input_table[crow].x, y |-> input_table[crow].y], 2)]
    /\ crow' = crow + 1
    /\ UNCHANGED <<cpc, input_table, cutoff_dist, lookup_tree, returned>>
    /\ UNCHANGED <<searchVars, batchVars, lockVars, dlVars, pipeVars>>

\* a variant of the mask that also keeps a row exactly at the cutoff
Farther_or_equal(d, cutoff) == d.inf \/ d.d2 >= cutoff * cutoff

\* line 93: nearest > cutoff_dist, for a cutoff that is not negative
Farther(d, cutoff) == d.inf \/ d.d2 > cutoff * cutoff

\* table[mask]: the rows whose mask entry is true, in the order of the table
RECURSIVE Masked(_, _)
Masked(table, mask) ==
    IF table = <<>> THEN <<>>
    ELSE (IF Head(mask) THEN <<Head(table)>> ELSE <<>>)
             \o Masked(Tail(table), Tail(mask))

\* lines 93-95: after the loop the rows are filtered by their nearest column
\* and the filtered table is returned
MaskAndReturn ==
    /\ cpc = "loop"
    /\ crow > Len(input_table)
    /\ returned' =
          Masked([k \in 1..Len(input_table) |->
                     [id |-> input_table[k].id, x |-> input_table[k].x,
                      y |-> input_table[k].y, nearest |-> nearest[k]]],
                 [k \in 1..Len(input_table) |-> Farther(nearest[k], cutoff_dist)])
    /\ cpc' = "returned"
    /\ UNCHANGED <<input_table, cutoff_dist, nearest, lookup_tree, crow>>
    /\ UNCHANGED <<searchVars, batchVars, lockVars, dlVars, pipeVars>>

NextClose ==
    \/ AddNearest
    \/ BuildTree
    \/ QueryRow
    \/ MaskAndReturn

(***************************************************************************)
(* Properties of cut_close_stars                                           *)
(***************************************************************************)
\* the rows of the input farther than the cutoff from every other row of the input
FarRows ==
    {k \in 1..Len(input_table) :
        \A j \in 1..Len(input_table) \ {k} :
            D2(input_table[k], input_table[j]) > cutoff_dist * cutoff_dist}

\* C13: cut_close_stars returns exactly the rows of the input table whose
\* distance to the nearest other row of the input is strictly greater than
\* cutoff_dist, in their original order: of two rows at or within the cutoff
\* of each other both are removed, and a table of one row keeps its row.
C13_CloseStarsCut ==
    cpc = "returned" =>
        /\ {returned[a].id : a \in 1..Len(returned)} = FarRows
        /\ \A a \in 1..Len(returned) :
              /\ returned[a].x = input_table[returned[a].id].x
              /\ returned[a].y = input_table[returned[a].id].y
        /\ \A a, b \in 1..Len(returned) : a < b => returned[a].id < returned[b].id
        /\ \A k, j \in 1..Len(input_table) :
              (k # j /\ D2(input_table[k], input_table[j]) <= cutoff_dist * cutoff_dist)
                  => k \notin {returned[a].id : a \in 1..Len(returned)}
        /\ Len(input_table) = 1 => Len(returned) = 1

\* a table of three rows of which two lie exactly at the cutoff from each
\* other and the third lies farther from both: only the third is returned
C13_Witness ==
    /\ cpc = "returned"
    /\ Len(input_table) = 3
    /\ cutoff_dist > 0
    /\ \E k, j \in 1..Len(input_table) :
          k # j /\ D2(input_table[k], input_table[j]) = cutoff_dist * cutoff_dist
    /\ Len(returned) = 1

(***************************************************************************)
(* Specifications                                                          *)
(***************************************************************************)
Init == InitSearch /\ IdleBatch /\ IdleLock /\ IdleDownload /\ IdlePhot

Spec == Init /\ [][Next]_vars

FairInit == InitSearch /\ IdleBatch /\ IdleLock /\ IdleDownload /\ IdlePhot

SpecFair == FairInit /\ [][NextUninterrupted]_vars /\ FairSearch

BatchInit == InitBatch /\ InitSearch /\ IdleLock /\ IdleDownload /\ IdlePhot

SpecBatch == BatchInit /\ [][NextBatch]_vars

LockInit == InitLock /\ InitSearch /\ IdleBatch /\ IdleDownload /\ IdlePhot

SpecLock == LockInit /\ [][NextLock]_vars /\ FairLock

DownloadInit == InitDownload /\ InitSearch /\ IdleBatch /\ IdleLock /\ IdlePhot

SpecDownload == DownloadInit /\ [][NextDownload]_vars

PhotInit == InitPhot /\ InitSearch /\ IdleBatch /\ IdleLock /\ IdleDownload

SpecPhot == PhotInit /\ [][NextPhot]_vars

CloseInit == InitClose /\ InitSearch /\ IdleBatch /\ IdleLock /\ IdleDownload /\ IdlePipe

SpecClose == CloseInit /\ [][NextClose]_vars

====
